---- MODULE Spec2Model ----
(***************************************************************************)
(* A model of the CDM-to-RDF pipeline: src/cleaning/cleaner.py,            *)
(* src/transform/mapper.py, src/storage/ingest.py and                      *)
(* src/orchestrator/pipeline.py.                                           *)
(*                                                                         *)
(* Python str values are TLA+ strings (TLC evaluates Len, Head, Tail,      *)
(* SubSeq and \o on them); every other Python value is a tagged record.    *)
(***************************************************************************)
EXTENDS Integers, Sequences, FiniteSets, TLC

VARIABLES
    pc,                 \* position of the running call
    exc,                \* the exception that left the call, or NoExc
    status,             \* run_full_pipeline's returned status string, or ""
    fn_in, fn_out,      \* normalize_name alone: its input, its successive results
    cdm_file,           \* the schema resource at CDM_FILE_PATH
    cdm_raw,            \* create_cdm_column_map's local cdm_raw
    cdm,                \* create_cdm_column_map's local cdm
    cdm_i,              \* position of the "for index, row in cdm.iterrows()" loop
    flat_to_format_map, \* the ColumnFormatMap being built / handed to cleaning
    raw_df,             \* the dataset's rows as the caller passed them
    df,                 \* the DataFrame's rows (cleaning works in place)
    dtypes,             \* the DataFrame's dtype per column
    yml,                \* the mapping resource at YML_MAPPING_PATH
    prefixes, mappings, \* generate_triples' locals from load_mapping_config
    idx, m_i, p_i,      \* positions of the row, mapping and po loops
    subj,               \* generate_triples' local subj
    n_triples,          \* generate_triples' local n_triples
    rules_visited,      \* the <<row, mapping>> pairs whose subject was resolved
    po_evaluated,       \* the <<row, mapping, po>> rules evaluated, in order
    emitted_from,       \* for each element of n_triples, the rule that appended it
    rdf_content,        \* save_triples_to_file's local rdf_content
    nt_file,            \* the artifact in data/intermediate: its text, or None
    nt_file_path,       \* save_triples_to_file's return value: a path, or None
    source_id,          \* run_full_pipeline's local source_id
    output_filename,    \* the filename handed to save_triples_to_file
    ingest_calls,       \* how many times ingest_rdf_file was entered
    ingest_success,     \* run_full_pipeline's local ingest_success
    archived            \* the files moved to processed storage

ctlVars == <<pc, exc, status>>
normVars == <<fn_in, fn_out>>
cdmVars == <<cdm_file, cdm_raw, cdm, cdm_i, flat_to_format_map>>
dfVars == <<raw_df, df, dtypes>>
genVars == <<yml, prefixes, mappings, idx, m_i, p_i, subj, n_triples,
             rules_visited, po_evaluated, emitted_from>>
ioVars == <<rdf_content, nt_file, nt_file_path, source_id, output_filename, ingest_calls, ingest_success, archived>>

vars == <<ctlVars, normVars, cdmVars, dfVars, genVars, ioVars>>

-----------------------------------------------------------------------------
(* Python values *)

PyNone == [k |-> "None"]
PyNaN == [k |-> "nan"]
PyNA == [k |-> "NA"]
PyNaT == [k |-> "NaT"]
PyStr(s) == [k |-> "str", v |-> s]
PyInt(n) == [k |-> "int", v |-> n]
PyFloat(n) == [k |-> "float", v |-> n]
PyDate(s) == [k |-> "date", v |-> s]

\* pd.isna on a scalar
IsNa(x) == x.k \in {"None", "nan", "NA", "NaT"}

NoExc == "none"

-----------------------------------------------------------------------------
(* Python str methods *)

Whitespace == {" ", "\t", "\n", "\r", "\f"}

RECURSIVE LStrip(_)
LStrip(s) ==
    IF s = "" THEN ""
    ELSE IF Head(s) \in Whitespace THEN LStrip(Tail(s)) ELSE s

RECURSIVE RStrip(_)
RStrip(s) ==
    IF s = "" THEN ""
    ELSE IF SubSeq(s, Len(s), Len(s)) \in Whitespace
         THEN RStrip(SubSeq(s, 1, Len(s) - 1))
         ELSE s

\* str.strip()
Strip(s) == RStrip(LStrip(s))

UpperCase == "ABCDEFGHIJKLMNOPQRSTUVWXYZ"
LowerCase == "abcdefghijklmnopqrstuvwxyz"

UpperChars == {SubSeq(UpperCase, i, i) : i \in 1..Len(UpperCase)}

LowerOf ==
    [c \in UpperChars |->
        LET i == CHOOSE j \in 1..Len(UpperCase) : SubSeq(UpperCase, j, j) = c
        IN SubSeq(LowerCase, i, i)]

LowerChar(c) == IF c \in UpperChars THEN LowerOf[c] ELSE c

\* str.lower()
RECURSIVE Lower(_)
Lower(s) == IF s = "" THEN "" ELSE LowerChar(Head(s)) \o Lower(Tail(s))

\* str.replace(old, new) for a one-character old
RECURSIVE Replace(_, _, _)
Replace(s, old, new) ==
    IF s = "" THEN ""
    ELSE (IF Head(s) = old THEN new ELSE Head(s)) \o Replace(Tail(s), old, new)

StartsWith(s, pre) == Len(s) >= Len(pre) /\ SubSeq(s, 1, Len(pre)) = pre

EndsWith(s, suf) ==
    Len(s) >= Len(suf) /\ SubSeq(s, Len(s) - Len(suf) + 1, Len(s)) = suf

-----------------------------------------------------------------------------
(* cleaner.py: normalize_name *)

normalize_name(s) ==
    IF IsNa(s) \/ Lower(s.v) \in {"nan", ""}
    THEN PyNone
    ELSE PyStr(Replace(Lower(Strip(s.v)), " ", "_"))

-----------------------------------------------------------------------------
(* Python dict and list helpers *)

EmptyMap == [x \in {} |-> x]

\* d[key] = val
DictSet(d, key, val) ==
    [x \in (DOMAIN d) \cup {key} |-> IF x = key THEN val ELSE d[x]]

\* d.get(key): the value, or None
DictGet(d, key) == IF key \in DOMAIN d THEN d[key] ELSE PyNone

\* sep.join(parts)
RECURSIVE Join(_, _)
Join(sep, parts) ==
    IF parts = <<>> THEN ""
    ELSE IF Len(parts) = 1 THEN parts[1]
    ELSE parts[1] \o sep \o Join(sep, Tail(parts))

\* "if x:" on a value that is None or a str
Truthy(x) == x.k = "str" /\ x.v # ""

-----------------------------------------------------------------------------
(* cleaner.py: create_cdm_column_map *)

TYPE_TRANSLATION_decimal_as_int ==
    [f \in {"Integer", "String", "String (predefined)", "Date", "Decimal", "URL"} |->
        CASE f = "Integer" -> "INT"
          [] f = "String" -> "STRING"
          [] f = "String (predefined)" -> "STRING"
          [] f = "Date" -> "DATE"
          [] f = "Decimal" -> "INT"
          [] f = "URL" -> "STRING"]

TYPE_TRANSLATION ==
    [f \in {"Integer", "String", "String (predefined)", "Date", "Decimal", "URL"} |->
        CASE f = "Integer" -> "INT"
          [] f = "String" -> "STRING"
          [] f = "String (predefined)" -> "STRING"
          [] f = "Date" -> "DATE"
          [] f = "Decimal" -> "FLOAT"
          [] f = "URL" -> "STRING"]

\* a local name that no assignment has bound yet
Unbound == [k |-> "unbound"]

\* str(x) of a schema cell: read_csv(dtype=str) yields str cells and NaN for blanks
CellStr(x) == IF x.k = "str" THEN x.v ELSE "nan"

\* Series.ffill() down one column of the schema table
RECURSIVE FFillColumn(_, _, _)
FFillColumn(rows, col, last) ==
    IF rows = <<>> THEN <<>>
    ELSE LET cell == Head(rows)[col]
             filled == IF IsNa(cell) THEN last ELSE cell
         IN <<[Head(rows) EXCEPT ![col] = filled]>> \o FFillColumn(Tail(rows), col, filled)

\* cdm['Level 1'].ffill(); cdm['Level 2'].ffill(); cdm['Level 3'].fillna(np.nan)
FFillLevels(rows) == FFillColumn(FFillColumn(rows, "Level 1", PyNaN), "Level 2", PyNaN)

\* row.get('Format', ''): the cell, or '' when the table has no Format column
FormatCell(table, row) == IF table.has_format THEN row["Format"] ELSE PyStr("")

required_format_of(table, row) == Strip(CellStr(FormatCell(table, row)))

\* TYPE_TRANSLATION.get(required_format), then the redundant "in" lookup
format_type_of(required_format) ==
    IF required_format \in DOMAIN TYPE_TRANSLATION
    THEN PyStr(TYPE_TRANSLATION[required_format])
    ELSE PyNone

normalized_levels(row) ==
    [l \in {"Level 1", "Level 2", "Level 3"} |-> normalize_name(PyStr(Strip(CellStr(row[l]))))]

flat_parts_of(row) ==
    LET n == normalized_levels(row)
    IN (IF Truthy(n["Level 1"]) THEN <<n["Level 1"].v>> ELSE <<>>)
       \o (IF Truthy(n["Level 2"]) THEN <<n["Level 2"].v>> ELSE <<>>)
       \o (IF Truthy(n["Level 3"]) THEN <<n["Level 3"].v>> ELSE <<>>)

DataGroups == {PyStr("record"), PyStr("victim"), PyStr("incident")}

flat_col_name_of(row) ==
    LET base == Join("_", flat_parts_of(row))
    IN IF normalized_levels(row)["Level 1"] \in DataGroups THEN "data_" \o base ELSE base

\* try: cdm_raw = pd.read_csv(...)  except Exception: print(...)
CdmRead ==
    /\ pc = "cdm_read"
    /\ cdm_raw' = IF cdm_file.readable THEN cdm_file ELSE cdm_raw
    /\ pc' = "cdm_ffill"
    /\ UNCHANGED <<exc, status, cdm_file, cdm, cdm_i, flat_to_format_map>>
    /\ UNCHANGED <<normVars, dfVars, genVars, ioVars>>

\* flat_to_format_map = {}; cdm = cdm_raw.copy(); the three fill statements
CdmFFill ==
    /\ pc = "cdm_ffill"
    /\ flat_to_format_map' = EmptyMap
    /\ IF cdm_raw = Unbound
       THEN /\ exc' = "UnboundLocalError: cdm_raw"
            /\ pc' = "raised"
            /\ UNCHANGED <<cdm, cdm_i>>
       ELSE /\ cdm' = FFillLevels(cdm_raw.rows)
            /\ cdm_i' = 1
            /\ pc' = "cdm_build"
            /\ exc' = exc
    /\ UNCHANGED <<status, cdm_file, cdm_raw>>
    /\ UNCHANGED <<normVars, dfVars, genVars, ioVars>>

\* one pass of "for index, row in cdm.iterrows()", or the return after the last
CdmBuild ==
    /\ pc = "cdm_build"
    /\ IF cdm_i > Len(cdm)
       THEN /\ pc' = "cdm_returned"
            /\ UNCHANGED <<cdm_i, flat_to_format_map>>
       ELSE /\ cdm_i' = cdm_i + 1
            /\ pc' = pc
            /\ flat_to_format_map' =
                 IF flat_parts_of(cdm[cdm_i]) = <<>>
                 THEN flat_to_format_map
                 ELSE DictSet(flat_to_format_map, flat_col_name_of(cdm[cdm_i]),
                              format_type_of(required_format_of(cdm_raw, cdm[cdm_i])))
    /\ UNCHANGED <<exc, status, cdm_file, cdm_raw, cdm>>
    /\ UNCHANGED <<normVars, dfVars, genVars, ioVars>>

-----------------------------------------------------------------------------
(* Numbers: an int is an Integer; a float is an Integer count of 1/FloatScale, *)
(* which is exact for the decimal texts of up to four places used here.        *)

FloatScale == 10 * 10 * 10 * 10

Digits == "0123456789"

DigitChars == {SubSeq(Digits, i, i) : i \in 1..Len(Digits)}

DigitValues ==
    [c \in DigitChars |-> (CHOOSE i \in 1..Len(Digits) : SubSeq(Digits, i, i) = c) - 1]

IsDigit(c) == c \in DigitChars

DigitVal(c) == DigitValues[c]

IsDigits(s) == \A i \in 1..Len(s) : IsDigit(SubSeq(s, i, i))

RECURSIVE DigitsVal(_)
DigitsVal(s) ==
    IF s = "" THEN 0
    ELSE DigitsVal(SubSeq(s, 1, Len(s) - 1)) * 10 + DigitVal(SubSeq(s, Len(s), Len(s)))

\* s.find(c) + 1: the first position of the character, or 0
IndexOf(s, c) ==
    IF \E i \in 1..Len(s) : SubSeq(s, i, i) = c
    THEN CHOOSE i \in 1..Len(s) :
            /\ SubSeq(s, i, i) = c
            /\ \A j \in 1..(i - 1) : SubSeq(s, j, j) # c
    ELSE 0

RECURSIVE PadRight(_, _)
PadRight(s, n) == IF Len(s) >= n THEN SubSeq(s, 1, n) ELSE PadRight(s \o "0", n)

\* the number a decimal text denotes, or NaN (pd.to_numeric(errors='coerce') on a str)
ParseNumeric(s) ==
    LET dot == IndexOf(s, ".")
        whole == SubSeq(s, 1, dot - 1)
        frac == SubSeq(s, dot + 1, Len(s))
    IN IF dot = 0
       THEN IF s # "" /\ IsDigits(s) THEN PyInt(DigitsVal(s)) ELSE PyNaN
       ELSE IF whole # "" /\ IsDigits(whole) /\ IsDigits(frac)
            THEN PyFloat(DigitsVal(whole) * FloatScale + DigitsVal(PadRight(frac, 4)))
            ELSE PyNaN

to_numeric(x) ==
    IF x.k = "str" THEN ParseNumeric(x.v)
    ELSE IF x.k \in {"int", "float"} THEN x
    ELSE PyNaN

IsIntegral(x) == x.k = "int" \/ (x.k = "float" /\ x.v % FloatScale = 0)

\* .astype('Int64') of one to_numeric result that is integral or NaN
AsInt64(x) ==
    IF x.k = "int" THEN x
    ELSE IF x.k = "float" THEN PyInt(x.v \div FloatScale)
    ELSE PyNA

\* .astype('float64') of one to_numeric result
AsFloat64(x) ==
    IF x.k = "int" THEN PyFloat(x.v * FloatScale)
    ELSE IF x.k = "float" THEN x
    ELSE PyNaN

\* a YYYY-MM-DD text
IsIsoDate(s) ==
    /\ Len(s) = 10
    /\ SubSeq(s, 5, 5) = "-" /\ SubSeq(s, 8, 8) = "-"
    /\ IsDigits(SubSeq(s, 1, 4)) /\ IsDigits(SubSeq(s, 6, 7)) /\ IsDigits(SubSeq(s, 9, 10))
    /\ DigitsVal(SubSeq(s, 6, 7)) \in 1..12
    /\ DigitsVal(SubSeq(s, 9, 10)) \in 1..28

\* pd.to_datetime(errors='coerce') of one cell
to_datetime(x) == IF x.k = "str" /\ IsIsoDate(x.v) THEN PyDate(x.v) ELSE PyNaT

\* round(3) of a float64 value (half to even at the fourth place)
Round3(x) ==
    IF x.k # "float" THEN x
    ELSE LET q == x.v \div 10
             r == x.v % 10
         IN IF r < 5 \/ (r = 5 /\ q % 2 = 0) THEN PyFloat(q * 10) ELSE PyFloat((q + 1) * 10)

-----------------------------------------------------------------------------
(* cleaner.py: clean_and_preprocess *)

required_ids ==
    {"data_record_record_id", "data_victim_victim_id", "data_trafficker_trafficker_id"}

location_cols ==
    {"data_victim_current_location_latitude", "data_victim_current_location_longitude",
     "data_incident_departure_latitude", "data_incident_departure_longitude",
     "data_incident_destination_latitude", "data_incident_destination_longitude"}

Columns == DOMAIN dtypes

\* a cell matched by the regex ^\s*$
BlankLike(x) == x.k = "str" /\ Strip(x.v) = ""

\* df.replace(r'^\s*$', np.nan, regex=True)
ReplaceBlank(rows) ==
    [i \in 1..Len(rows) |->
        [c \in DOMAIN rows[i] |-> IF BlankLike(rows[i][c]) THEN PyNaN ELSE rows[i][c]]]

existing_ids == required_ids \cap Columns

\* df.dropna(subset=existing_ids)
DropNa(rows) ==
    LET Keep(r) == \A c \in existing_ids : ~IsNa(r[c])
    IN SelectSeq(rows, Keep)

ColumnsOfFormat(f) == {c \in Columns : DictGet(flat_to_format_map, c) = PyStr(f)}

INT_COLUMNS == ColumnsOfFormat("INT")
FLOAT_COLUMNS == ColumnsOfFormat("FLOAT")
DATE_COLUMNS == ColumnsOfFormat("DATE")

\* astype('Int64') refuses a column holding a non-integral float
IntCastRaises ==
    \E c \in INT_COLUMNS : \E i \in 1..Len(df) : ~IsNa(to_numeric(df[i][c]))
                                               /\ ~IsIntegral(to_numeric(df[i][c]))

ConvertCell(c, x) ==
    IF c \in INT_COLUMNS THEN AsInt64(to_numeric(x))
    ELSE IF c \in FLOAT_COLUMNS THEN AsFloat64(to_numeric(x))
    ELSE IF c \in DATE_COLUMNS THEN to_datetime(x)
    ELSE x

ConvertDtype(c) ==
    IF c \in INT_COLUMNS THEN "Int64"
    ELSE IF c \in FLOAT_COLUMNS THEN "float64"
    ELSE IF c \in DATE_COLUMNS THEN "datetime64"
    ELSE dtypes[c]

\* lines 107-117: blanks to NaN, then the rows without their critical ids go
CleanDrop ==
    /\ pc = "cdm_returned"
    /\ df' = IF existing_ids # {} THEN DropNa(ReplaceBlank(df)) ELSE ReplaceBlank(df)
    /\ pc' = "clean_convert"
    /\ UNCHANGED <<exc, status, raw_df, dtypes>>
    /\ UNCHANGED <<normVars, cdmVars, genVars, ioVars>>

\* lines 119-152: the columns are sorted by declared format and converted
CleanConvert ==
    /\ pc = "clean_convert"
    /\ IF IntCastRaises
       THEN /\ exc' = "TypeError: cannot safely cast non-equivalent float64 to int64"
            /\ pc' = "raised"
            /\ UNCHANGED <<df, dtypes>>
       ELSE /\ df' = [i \in 1..Len(df) |-> [c \in Columns |-> ConvertCell(c, df[i][c])]]
            /\ dtypes' = [c \in Columns |-> ConvertDtype(c)]
            /\ pc' = "clean_round"
            /\ exc' = exc
    /\ UNCHANGED <<status, raw_df>>
    /\ UNCHANGED <<normVars, cdmVars, genVars, ioVars>>

\* Series.round(3) is defined on the numeric dtypes only: on an object or datetime
\* column it raises TypeError in some pandas releases and returns the column
\* unchanged in others
RoundRaises == \E c \in location_cols \cap Columns : dtypes[c] \in {"object", "datetime64"}

\* lines 154-172: the location columns present are rounded, and df is returned
CleanRound ==
    /\ pc = "clean_round"
    /\ \E raises \in IF RoundRaises THEN BOOLEAN ELSE {FALSE} :
          IF raises
          THEN /\ exc' = "TypeError: Expected numeric dtype"
               /\ pc' = "raised"
               /\ df' = df
          ELSE /\ df' = [i \in 1..Len(df) |->
                           [c \in Columns |-> IF c \in location_cols THEN Round3(df[i][c])
                                              ELSE df[i][c]]]
               /\ pc' = "clean_returned"
               /\ exc' = exc
    /\ UNCHANGED <<status, raw_df, dtypes>>
    /\ UNCHANGED <<normVars, cdmVars, genVars, ioVars>>

-----------------------------------------------------------------------------
(* Python str() of the values a row can hold *)

RECURSIVE IntStr(_)
IntStr(n) ==
    IF n < 10 THEN SubSeq(Digits, n + 1, n + 1)
    ELSE IntStr(n \div 10) \o SubSeq(Digits, (n % 10) + 1, (n % 10) + 1)

RECURSIVE StripZeros(_)
StripZeros(s) ==
    IF Len(s) > 1 /\ SubSeq(s, Len(s), Len(s)) = "0"
    THEN StripZeros(SubSeq(s, 1, Len(s) - 1))
    ELSE s

\* the four-digit text of a fraction below FloatScale
FracStr(f) ==
    SubSeq(Digits, (f \div 1000) + 1, (f \div 1000) + 1)
    \o SubSeq(Digits, ((f \div 100) % 10) + 1, ((f \div 100) % 10) + 1)
    \o SubSeq(Digits, ((f \div 10) % 10) + 1, ((f \div 10) % 10) + 1)
    \o SubSeq(Digits, (f % 10) + 1, (f % 10) + 1)

PyToStr(x) ==
    CASE x.k = "str" -> x.v
      [] x.k = "int" -> IntStr(x.v)
      [] x.k = "float" -> IntStr(x.v \div FloatScale) \o "." \o StripZeros(FracStr(x.v % FloatScale))
      [] x.k = "date" -> x.v \o " 00:00:00"
      [] x.k = "NA" -> "<NA>"
      [] x.k = "NaT" -> "NaT"
      [] x.k = "nan" -> "nan"
      [] x.k = "None" -> "None"

-----------------------------------------------------------------------------
(* mapper.py: the utility functions *)

\* "x is None or (isinstance(x, float) and pd.isna(x))": None and the float NaN only
safe_str(x) ==
    IF x.k = "None" \/ x.k = "nan" THEN "" ELSE Strip(PyToStr(x))

\* row.get(col, "")
RowGet(row, col) == IF col \in DOMAIN row THEN row[col] ELSE PyStr("")

\* PLACEHOLDER_RE.sub(repl, template), with PLACEHOLDER_RE = \$\(([^)]+)\)
RECURSIVE substitute_placeholders(_, _)
substitute_placeholders(template, row) ==
    IF template = "" THEN ""
    ELSE LET rest == SubSeq(template, 3, Len(template))
             close == IndexOf(rest, ")")
         IN IF StartsWith(template, "$(") /\ close >= 2
            THEN safe_str(RowGet(row, SubSeq(rest, 1, close - 1)))
                 \o substitute_placeholders(SubSeq(rest, close + 1, Len(rest)), row)
            ELSE Head(template) \o substitute_placeholders(Tail(template), row)

expand_prefixed(iri_or_curie, pfx) ==
    LET s == Strip(iri_or_curie)
        colon == IndexOf(s, ":")
        prefix == SubSeq(s, 1, colon - 1)
        local == SubSeq(s, colon + 1, Len(s))
    IN IF StartsWith(s, "<") /\ EndsWith(s, ">") THEN SubSeq(s, 2, Len(s) - 1)
       ELSE IF colon > 0 /\ prefix \in DOMAIN pfx THEN pfx[prefix] \o local
       ELSE s

escape_literal(value) ==
    Replace(Replace(Replace(Replace(value, "\\", "\\\\"), "\"", "\\\""), "\n", "\\n"),
            "\r", "\\r")

is_prefixed_resource(value, pfx) ==
    \E prefix \in DOMAIN pfx : StartsWith(Strip(value), prefix \o ":")

RdfNamespace == "http://www.w3.org/1999/02/22-rdf-syntax-ns#"

\* load_mapping_config's prefixes: the file's, with rdf injected when absent
LoadedPrefixes(y) ==
    IF "rdf" \in DOMAIN y.prefixes THEN y.prefixes
    ELSE DictSet(y.prefixes, "rdf", RdfNamespace)

-----------------------------------------------------------------------------
(* mapper.py: generate_triples *)

PlaceholderSuffixes ==
    {"case_", "victim_current_place_", "departure_place_", "destination_place_"}

SkipSubject_without_destination(subj_iri) ==
    \/ subj_iri = ""
    \/ \E suf \in PlaceholderSuffixes \ {"destination_place_"} : EndsWith(subj_iri, suf)

\* the SKIP LOGIC condition on the resolved subject
SkipSubject(subj_iri) ==
    \/ subj_iri = ""
    \/ \E suf \in PlaceholderSuffixes : EndsWith(subj_iri, suf)

subj_iri_of(template, row, pfx) ==
    expand_prefixed(substitute_placeholders(template, row), pfx)

\* pred = f"<{pred_iri}>"
pred_of(po, pfx) ==
    "<" \o (IF po[1] = "a" THEN pfx["rdf"] \o "type" ELSE expand_prefixed(po[1], pfx)) \o ">"

obj_template_sub_of(po, row) == Strip(substitute_placeholders(po[2], row))

\* obj: an IRI when the raw template is prefixed, else a literal with its datatype
obj_of(po, row, pfx) ==
    LET sub == obj_template_sub_of(po, row)
    IN IF is_prefixed_resource(po[2], pfx)
       THEN "<" \o expand_prefixed(sub, pfx) \o ">"
       ELSE IF Len(po) > 2 /\ po[3] # ""
            THEN "\"" \o escape_literal(sub) \o "\"^^<" \o expand_prefixed(po[3], pfx) \o ">"
            ELSE "\"" \o escape_literal(sub) \o "\""

\* f"{subj} {pred} {obj} ."
triple_of(sub, po, row, pfx) ==
    sub \o " " \o pred_of(po, pfx) \o " " \o obj_of(po, row, pfx) \o " ."

NextPoAfterEmptyObject_break(p, n) == n + 1

\* "continue" after an object that substituted to the empty string
NextPoAfterEmptyObject(p, n) == p + 1

\* save_triples_to_file's makedirs, then generate_triples up to its loops:
\* load_mapping_config and n_triples = []
GenLoad ==
    /\ pc = "gen_load"
    /\ IF ~yml.exists
       THEN /\ exc' = "FileNotFoundError"
            /\ pc' = "raised"
            /\ UNCHANGED <<prefixes, mappings, idx, m_i, n_triples>>
       ELSE /\ prefixes' = LoadedPrefixes(yml)
            /\ mappings' = yml.mappings
            /\ n_triples' = <<>>
            /\ idx' = 1
            /\ m_i' = 1
            /\ pc' = "gen_map"
            /\ exc' = exc
    /\ UNCHANGED <<status, yml, p_i, subj, rules_visited, po_evaluated, emitted_from>>
    /\ UNCHANGED <<normVars, cdmVars, dfVars, ioVars>>

\* the heads of "for idx, row" and "for map_name, map_cfg", subject generation and
\* the skip logic; after the last row, the return of "\n".join(n_triples)
GenMap ==
    /\ pc = "gen_map"
    /\ IF idx > Len(df)
       THEN /\ rdf_content' = Join("\n", n_triples)
            /\ pc' = "gen_returned"
            /\ UNCHANGED <<idx, m_i, p_i, subj, rules_visited>>
       ELSE IF m_i > Len(mappings)
       THEN /\ idx' = idx + 1
            /\ m_i' = 1
            /\ UNCHANGED <<pc, p_i, subj, rules_visited, rdf_content>>
       ELSE /\ rules_visited' = rules_visited \cup {<<idx, m_i>>}
            /\ UNCHANGED <<idx, rdf_content>>
            /\ IF ~Truthy(mappings[m_i].s)
               THEN /\ m_i' = m_i + 1
                    /\ UNCHANGED <<pc, p_i, subj>>
               ELSE LET subj_iri == subj_iri_of(mappings[m_i].s.v, df[idx], prefixes)
                    IN IF SkipSubject(subj_iri)
                       THEN /\ m_i' = m_i + 1
                            /\ UNCHANGED <<pc, p_i, subj>>
                       ELSE /\ subj' = "<" \o subj_iri \o ">"
                            /\ p_i' = 1
                            /\ pc' = "gen_po"
                            /\ m_i' = m_i
    /\ UNCHANGED <<exc, status, yml, prefixes, mappings, n_triples, po_evaluated,
                   emitted_from>>
    /\ UNCHANGED <<nt_file, nt_file_path, source_id, output_filename, ingest_calls,
                   ingest_success, archived>>
    /\ UNCHANGED <<normVars, cdmVars, dfVars>>

\* one pass of "for po in po_list", or the end of the list
GenPo ==
    /\ pc = "gen_po"
    /\ LET po_list == mappings[m_i].po
       IN IF p_i > Len(po_list)
          THEN /\ m_i' = m_i + 1
               /\ pc' = "gen_map"
               /\ UNCHANGED <<p_i, n_triples, po_evaluated, emitted_from>>
          ELSE IF Len(po_list[p_i]) < 2
          THEN /\ p_i' = p_i + 1
               /\ UNCHANGED <<pc, m_i, n_triples, po_evaluated, emitted_from>>
          ELSE /\ po_evaluated' = Append(po_evaluated, <<idx, m_i, p_i>>)
               /\ UNCHANGED <<pc, m_i>>
               /\ IF obj_template_sub_of(po_list[p_i], df[idx]) = ""
                  THEN /\ p_i' = NextPoAfterEmptyObject(p_i, Len(po_list))
                       /\ UNCHANGED <<n_triples, emitted_from>>
                  ELSE /\ n_triples' =
                            Append(n_triples, triple_of(subj, po_list[p_i], df[idx], prefixes))
                       /\ emitted_from' = Append(emitted_from, <<idx, m_i, p_i>>)
                       /\ p_i' = p_i + 1
    /\ UNCHANGED <<exc, status, yml, prefixes, mappings, idx, subj, rules_visited>>
    /\ UNCHANGED <<normVars, cdmVars, dfVars, ioVars>>

-----------------------------------------------------------------------------
(* mapper.py: save_triples_to_file, after generate_triples returned *)

NoContent_never(content) == FALSE

\* "if not rdf_content"
NoContent(content) == content = ""

\* what f.write(rdf_content), and the newline added when missing, leave in the file
Written(content) == IF EndsWith(content, "\n") THEN content ELSE content \o "\n"

INTERMEDIATE_DIR == "data/intermediate"

\* lines 177-195: None for no content; else the file is written, or IOError leaves
SaveWrite ==
    /\ pc = "gen_returned"
    /\ IF NoContent(rdf_content)
       THEN /\ nt_file_path' = PyNone
            /\ pc' = "save_returned"
            /\ UNCHANGED <<exc, nt_file>>
       ELSE \E io_ok \in BOOLEAN :
              IF io_ok
              THEN /\ nt_file' = PyStr(Written(rdf_content))
                   /\ nt_file_path' = PyStr(INTERMEDIATE_DIR \o "/" \o output_filename)
                   /\ pc' = "save_returned"
                   /\ exc' = exc
              ELSE /\ exc' = "IOError"
                   /\ pc' = "raised"
                   /\ UNCHANGED <<nt_file, nt_file_path>>
    /\ UNCHANGED <<status, rdf_content, source_id, output_filename, ingest_calls,
                   ingest_success, archived>>
    /\ UNCHANGED <<normVars, cdmVars, dfVars, genVars>>

-----------------------------------------------------------------------------
(* pipeline.py: run_full_pipeline, and ingest.py: ingest_rdf_file *)

\* datetime.now().strftime("%Y%m%d_%H%M%S") at the time of the run
Timestamp == "20240105_120000"

\* lines 25-47: the empty check, source_id, the filename, the call of
\* save_triples_to_file
PipeCheck ==
    /\ pc = "clean_returned"
    /\ IF Len(df) = 0 \/ Columns = {}
       THEN /\ status' = "Failed: Empty DataFrame or IDs"
            /\ pc' = "done"
            /\ UNCHANGED <<source_id, output_filename>>
       ELSE IF "data_record_source_id" \notin Columns
       THEN /\ status' = "Failed: Missing source_id"
            /\ pc' = "done"
            /\ UNCHANGED <<source_id, output_filename>>
       ELSE /\ source_id' = Strip(PyToStr(df[1]["data_record_source_id"]))
            /\ output_filename' = source_id' \o "_batch_" \o Timestamp \o ".nt"
            /\ pc' = "gen_load"
            /\ status' = status
    /\ UNCHANGED <<exc, rdf_content, nt_file, nt_file_path, ingest_calls, ingest_success,
                   archived>>
    /\ UNCHANGED <<normVars, cdmVars, dfVars, genVars>>

\* what a call of ingest_rdf_file can meet: the file gone, an error before conn is
\* bound, an error after it, or none
IngestOutcomes == {"file_missing", "connect_error", "upload_error", "loaded"}

\* lines 49-55 and ingest_rdf_file: no path is the generation failure; else the
\* file is ingested. An error before "conn = ..." reaches the finally block with
\* conn unbound, and "if conn:" raises.
PipeIngest ==
    /\ pc = "save_returned"
    /\ IF nt_file_path = PyNone
       THEN /\ status' = "Failed: RDF Generation Error"
            /\ pc' = "done"
            /\ UNCHANGED <<exc, ingest_calls, ingest_success>>
       ELSE /\ ingest_calls' = ingest_calls + 1
            /\ status' = status
            /\ \E outcome \in IngestOutcomes :
                 IF outcome = "connect_error"
                 THEN /\ exc' = "UnboundLocalError: conn"
                      /\ pc' = "raised"
                      /\ UNCHANGED ingest_success
                 ELSE /\ ingest_success' = (outcome = "loaded")
                      /\ pc' = "archive"
                      /\ exc' = exc
    /\ UNCHANGED <<rdf_content, nt_file, nt_file_path, source_id, output_filename, archived>>
    /\ UNCHANGED <<normVars, cdmVars, dfVars, genVars>>

\* lines 58-85: after a successful ingestion the files are moved (a failed move is
\* only logged; the raw-record file moves when a path was given and exists)
PipeArchive ==
    /\ pc = "archive"
    /\ IF ingest_success
       THEN /\ \E moved \in SUBSET {"nt", "json"} : archived' = moved
            /\ status' = "Success"
       ELSE /\ archived' = archived
            /\ status' = "Failed: Ingestion Error"
    /\ pc' = "done"
    /\ UNCHANGED <<exc, rdf_content, nt_file, nt_file_path, source_id, output_filename,
                   ingest_calls, ingest_success>>
    /\ UNCHANGED <<normVars, cdmVars, dfVars, genVars>>

-----------------------------------------------------------------------------
(* normalize_name applied to an input, and again to its own result *)

NormalizeName ==
    /\ pc = "norm"
    /\ Len(fn_out) < 2
    /\ fn_out' = Append(fn_out, normalize_name(IF fn_out = <<>> THEN fn_in
                                               ELSE fn_out[Len(fn_out)]))
    /\ UNCHANGED <<ctlVars, fn_in, cdmVars, dfVars, genVars, ioVars>>

-----------------------------------------------------------------------------
(* The inputs the specifications draw from *)

MaxNameLen == 4
MaxSchemaRows == 2
MaxRows == 2

\* all sequences over pool of length at most n
SeqsUpTo(pool, n) == UNION {[1..k -> pool] : k \in 0..n}

\* all strings over the characters of alphabet of length at most n
RECURSIVE StringsUpTo(_, _)
StringsUpTo(alphabet, n) ==
    IF n = 0 THEN {""}
    ELSE LET shorter == StringsUpTo(alphabet, n - 1)
         IN shorter \cup {s \o c : s \in shorter, c \in alphabet}

NormInputs ==
    {PyNone, PyNaN} \cup {PyStr(s) : s \in StringsUpTo({" ", "a", "n", "N", "B", "_"}, MaxNameLen)}

SchemaRow(l1, l2, l3, f) ==
    [c \in {"Level 1", "Level 2", "Level 3", "Format"} |->
        CASE c = "Level 1" -> l1 [] c = "Level 2" -> l2 [] c = "Level 3" -> l3 [] OTHER -> f]

SchemaRowPool ==
    {SchemaRow(PyStr("Record"), PyStr("Record ID"), PyNaN, PyStr("Integer")),
     SchemaRow(PyNaN, PyStr("Source ID"), PyNaN, PyStr("String")),
     SchemaRow(PyStr("Victim"), PyStr("Current Location"), PyStr("Latitude"), PyStr("Decimal")),
     SchemaRow(PyNaN, PyNaN, PyStr("Longitude"), PyStr("Decimal")),
     SchemaRow(PyStr("Incident"), PyStr("Date"), PyNaN, PyStr("Date")),
     SchemaRow(PyStr("Meta"), PyStr("Link"), PyNaN, PyStr("URL")),
     SchemaRow(PyStr("Meta"), PyStr("Kind"), PyNaN, PyStr("String (predefined)")),
     SchemaRow(PyStr("Meta"), PyStr("Kind"), PyNaN, PyStr(" Date ")),
     SchemaRow(PyStr(" Meta"), PyStr("Flag"), PyNaN, PyStr("Boolean")),
     SchemaRow(PyNaN, PyStr("Note"), PyNaN, PyNaN),
     SchemaRow(PyNaN, PyNaN, PyNaN, PyStr("integer"))}

UnreadableSchema == [readable |-> FALSE, has_format |-> FALSE, rows |-> <<>>]

SchemaFiles ==
    {UnreadableSchema}
    \cup {[readable |-> TRUE, has_format |-> hf, rows |-> rows] :
             hf \in BOOLEAN, rows \in SeqsUpTo(SchemaRowPool, MaxSchemaRows)}

\* the schema of the run: the columns of the datasets below
PipelineSchema ==
    [readable |-> TRUE, has_format |-> TRUE,
     rows |-> <<SchemaRow(PyStr("Record"), PyStr("Record ID"), PyNaN, PyStr("String")),
                SchemaRow(PyNaN, PyStr("Source ID"), PyNaN, PyStr("String")),
                SchemaRow(PyStr("Victim"), PyStr("Age"), PyNaN, PyStr("Integer")),
                SchemaRow(PyNaN, PyStr("Current Location"), PyStr("Latitude"), PyStr("Decimal")),
                SchemaRow(PyStr("Incident"), PyStr("Date"), PyNaN, PyStr("Date"))>>]

\* the rows over the given columns whose cells come from the column's pool
RowsOver(pools) ==
    {r \in [DOMAIN pools -> UNION {pools[c] : c \in DOMAIN pools}] :
        \A c \in DOMAIN pools : r[c] \in pools[c]}

ObjectDtypes(rows_pool) == [c \in UNION {DOMAIN r : r \in rows_pool} |-> "object"]

RidPool == {PyStr("R1"), PyStr(" "), PyNone}
SidPool == {PyStr("#S1")}
AgePool == {PyStr("7"), PyStr("x"), PyStr("3.5")}

PipelineRowPools ==
    {RowsOver([c \in {"data_record_record_id", "data_record_source_id", "data_victim_age"} |->
                 CASE c = "data_record_record_id" -> RidPool
                   [] c = "data_record_source_id" -> SidPool
                   [] OTHER -> AgePool]),
     RowsOver([c \in {"data_record_record_id", "data_victim_age"} |->
                 CASE c = "data_record_record_id" -> RidPool [] OTHER -> {PyStr("7")}]),
     RowsOver([c \in {"data_record_source_id", "data_victim_age"} |->
                 CASE c = "data_record_source_id" -> SidPool [] OTHER -> {PyStr("7"), PyStr("x")}])}

Mapping(name, subject, po) == [name |-> name, s |-> subject, po |-> po]

MissingYml == [exists |-> FALSE, prefixes |-> EmptyMap, mappings |-> <<>>]

ExPrefixes == [p \in {"ex"} |-> "http://ex.org/"]

CaseMapping == Mapping("case", PyStr("ex:case_$(data_case_id)"), <<<<"a", "ex:Case">>>>)

ReportMapping ==
    Mapping("report", PyStr("ex:report_$(data_record_record_id)"),
            <<<<"a", "ex:Report">>,
              <<"ex:age", "$(data_victim_age)", "xsd:integer">>,
              <<"ex:source", "ex:source_$(data_record_source_id)">>>>)

PipelineYmls ==
    {MissingYml,
     [exists |-> TRUE, prefixes |-> ExPrefixes, mappings |-> <<CaseMapping, ReportMapping>>],
     [exists |-> TRUE, prefixes |-> ExPrefixes, mappings |-> <<CaseMapping>>]}

-----------------------------------------------------------------------------
(* The specifications *)

CtlIdle(at) == pc = at /\ exc = NoExc /\ status = ""
NormIdle == fn_in = PyNone /\ fn_out = <<>>
CdmIdle ==
    /\ cdm_file = UnreadableSchema /\ cdm_raw = Unbound /\ cdm = <<>> /\ cdm_i = 0
    /\ flat_to_format_map = EmptyMap
DfIdle == raw_df = <<>> /\ df = <<>> /\ dtypes = EmptyMap
GenStart ==
    /\ prefixes = EmptyMap /\ mappings = <<>> /\ idx = 0 /\ m_i = 0 /\ p_i = 0
    /\ subj = "" /\ n_triples = <<>> /\ rules_visited = {} /\ po_evaluated = <<>>
    /\ emitted_from = <<>>
GenIdle == yml = MissingYml /\ GenStart
IoIdle ==
    /\ rdf_content = "" /\ nt_file = PyNone /\ nt_file_path = PyNone /\ source_id = ""
    /\ output_filename = "output.nt" /\ ingest_calls = 0 /\ ingest_success = FALSE
    /\ archived = {}

\* run_full_pipeline(raw_df)
Init ==
    /\ CtlIdle("cdm_read")
    /\ NormIdle
    /\ cdm_file \in {UnreadableSchema, PipelineSchema}
    /\ cdm_raw = Unbound /\ cdm = <<>> /\ cdm_i = 0 /\ flat_to_format_map = EmptyMap
    /\ \E pool \in PipelineRowPools :
          /\ raw_df \in SeqsUpTo(pool, MaxRows)
          /\ dtypes = ObjectDtypes(pool)
    /\ df = raw_df
    /\ yml \in PipelineYmls
    /\ GenStart
    /\ IoIdle

Next ==
    \/ CdmRead
    \/ CdmFFill
    \/ CdmBuild
    \/ CleanDrop
    \/ CleanConvert
    \/ CleanRound
    \/ PipeCheck
    \/ GenLoad
    \/ GenMap
    \/ GenPo
    \/ SaveWrite
    \/ PipeIngest
    \/ PipeArchive

Spec == Init /\ [][Next]_vars

\* normalize_name(s)
InitNorm ==
    /\ CtlIdle("norm")
    /\ fn_in \in NormInputs
    /\ fn_out = <<>>
    /\ CdmIdle /\ DfIdle /\ GenIdle /\ IoIdle

NextNorm == NormalizeName

SpecNorm == InitNorm /\ [][NextNorm]_vars

\* create_cdm_column_map(cdm_file_path)
InitSchema ==
    /\ CtlIdle("cdm_read")
    /\ NormIdle
    /\ cdm_file \in SchemaFiles
    /\ cdm_raw = Unbound /\ cdm = <<>> /\ cdm_i = 0 /\ flat_to_format_map = EmptyMap
    /\ DfIdle /\ GenIdle /\ IoIdle

NextSchema ==
    \/ CdmRead
    \/ CdmFFill
    \/ CdmBuild

SpecSchema == InitSchema /\ [][NextSchema]_vars

\* clean_and_preprocess(df, flat_to_format_map)
CleanColumns ==
    {"data_record_record_id", "data_victim_age", "data_victim_current_location_latitude",
     "data_incident_date"}

CleanRowPool ==
    RowsOver([c \in CleanColumns |->
                CASE c = "data_record_record_id" -> {PyStr("R1"), PyStr(" ")}
                  [] c = "data_victim_age" -> AgePool
                  [] c = "data_victim_current_location_latitude" ->
                        {PyStr("12.3456"), PyStr("n/a")}
                  [] OTHER -> {PyStr("2024-01-05"), PyStr("soon")}])

CleanMap(age, lat, date) ==
    [c \in CleanColumns |->
        CASE c = "data_record_record_id" -> PyStr("STRING")
          [] c = "data_victim_age" -> age
          [] c = "data_victim_current_location_latitude" -> lat
          [] OTHER -> date]

CleanMaps ==
    {CleanMap(PyStr("INT"), PyStr("FLOAT"), PyStr("DATE")),
     CleanMap(PyStr("FLOAT"), PyStr("INT"), PyNone),
     CleanMap(PyNone, PyNone, PyStr("DATE"))}

InitClean ==
    /\ CtlIdle("cdm_returned")
    /\ NormIdle
    /\ cdm_file = UnreadableSchema /\ cdm_raw = Unbound /\ cdm = <<>> /\ cdm_i = 0
    /\ flat_to_format_map \in CleanMaps
    /\ raw_df \in SeqsUpTo(CleanRowPool, MaxRows)
    /\ df = raw_df
    /\ dtypes = [c \in CleanColumns |-> "object"]
    /\ GenIdle /\ IoIdle

NextClean ==
    \/ CleanDrop
    \/ CleanConvert
    \/ CleanRound

SpecClean == InitClean /\ [][NextClean]_vars

\* save_triples_to_file(df) on a cleaned DataFrame
GenColumns == {"data_record_record_id", "data_case_id", "data_victim_age", "data_note"}

GenRow(rid, case, age, note) ==
    [c \in GenColumns |->
        CASE c = "data_record_record_id" -> rid
          [] c = "data_case_id" -> case
          [] c = "data_victim_age" -> age
          [] OTHER -> note]

GenRowPool ==
    {GenRow(PyStr("R1"), PyStr("C1"), PyInt(7), PyStr("plain")),
     GenRow(PyStr("A\nB"), PyNaN, PyNA, PyStr("say \"hi\"\nbye\\")),
     GenRow(PyNaN, PyStr("C2"), PyInt(12), PyNaN),
     GenRow(PyStr("R2"), PyNaN, PyNA, PyStr("x\ry"))}

GenDtypes == [c \in GenColumns |-> IF c = "data_victim_age" THEN "Int64" ELSE "object"]

ReportRules ==
    <<<<"a", "ex:Report">>,
      <<"ex:note", "$(data_note)">>,
      <<"ex:age", "$(data_victim_age)", "xsd:integer">>,
      <<"ex:short">>,
      <<"ex:case", "ex:case_$(data_case_id)">>>>

GenYmls ==
    {MissingYml,
     [exists |-> TRUE, prefixes |-> ExPrefixes,
      mappings |-> <<Mapping("case", PyStr("ex:case_$(data_case_id)"),
                             <<<<"a", "ex:Case">>,
                               <<"ex:about", "ex:report_$(data_record_record_id)">>>>),
                     Mapping("report", PyStr("ex:report_$(data_record_record_id)"),
                             ReportRules)>>],
     [exists |-> TRUE,
      prefixes |-> [p \in {"ex", "rdf"} |-> IF p = "ex" THEN "http://ex.org/" ELSE RdfNamespace],
      mappings |-> <<Mapping("nosubject", PyNone, <<<<"a", "ex:Thing">>>>),
                     Mapping("dest", PyStr("ex:destination_place_$(data_case_id)"),
                             <<<<"a", "ex:Place">>>>),
                     Mapping("bare", PyStr("$(data_case_id)"), <<<<"rdf:type", "ex:Case">>>>),
                     Mapping("abs", PyStr("<http://x/$(data_record_record_id)>"),
                             <<<<"ex:empty", "$(missing_col)">>,
                               <<"ex:note", " $(data_note) ", "">>>>)>>]}

InitGen ==
    /\ CtlIdle("gen_load")
    /\ NormIdle /\ CdmIdle
    /\ raw_df = <<>>
    /\ df \in SeqsUpTo(GenRowPool, MaxRows)
    /\ dtypes = GenDtypes
    /\ yml \in GenYmls
    /\ GenStart
    /\ IoIdle

NextGen ==
    \/ GenLoad
    \/ GenMap
    \/ GenPo
    \/ SaveWrite

SpecGen == InitGen /\ [][NextGen]_vars

-----------------------------------------------------------------------------
(* The claims *)

Ended == pc \in {"done", "raised"}

\* generate_triples has returned in this run
GenReturned ==
    /\ pc \in {"gen_returned", "save_returned", "archive", "done", "raised"}
    /\ idx > Len(df)
    /\ idx > 0

\* C1: in every run of run_full_pipeline, ingest_rdf_file is entered at most once
\* and only after save_triples_to_file wrote an artifact holding at least one
\* statement; when generate_triples produced no statement for a non-empty cleaned
\* dataset, no file is written, ingestion is never entered, and the run returns
\* "Failed: RDF Generation Error".
C1_IngestOnlyAfterArtifact ==
    /\ ingest_calls <= 1
    /\ ingest_calls = 1 =>
          /\ nt_file # PyNone
          /\ Len(n_triples) >= 1
          /\ nt_file.v = Join("\n", n_triples) \o "\n"
    /\ (GenReturned /\ Len(df) > 0 /\ n_triples = <<>>) =>
          /\ nt_file = PyNone
          /\ ingest_calls = 0
          /\ pc \in {"gen_returned", "save_returned", "done"}
          /\ pc = "done" => status = "Failed: RDF Generation Error"

C1_Witness ==
    /\ pc = "done"
    /\ status = "Failed: RDF Generation Error"
    /\ Len(df) > 0
    /\ GenReturned /\ n_triples = <<>> /\ rules_visited # {}

\* C2: for every placeholder $(ColumnName) and every record, if the column is
\* absent from the record or its value is null -- a value that cleaning nulled by
\* INT, FLOAT or DATE coercion included -- substitute_placeholders puts the empty
\* string in its place.
C2_NullSubstitutesEmpty ==
    pc \in {"clean_returned", "gen_load", "gen_map", "gen_po"} =>
        \A i \in 1..Len(df) : \A c \in Columns \cup {"data_case_id"} :
            (c \notin Columns \/ IsNa(df[i][c])) =>
                substitute_placeholders("$(" \o c \o ")", df[i]) = ""

\* C3: for every dataset and every cell of a column declared INT, FLOAT or DATE,
\* clean_and_preprocess does not raise on the coercion, and the coerced cell is the
\* exactly parsed value or null.
C3_CoercionNeverRaises ==
    /\ exc # "TypeError: cannot safely cast non-equivalent float64 to int64"
    /\ pc = "clean_round" =>
          \A i \in 1..Len(df) : \A c \in INT_COLUMNS \cup FLOAT_COLUMNS \cup DATE_COLUMNS :
              IsNa(df[i][c]) \/ df[i][c].k \in {"int", "float", "date"}

\* every row of the dataset the caller passed lacks a critical id that exists
AllRowsLackIds ==
    /\ existing_ids # {}
    /\ \A i \in 1..Len(raw_df) :
          \E c \in existing_ids : IsNa(raw_df[i][c]) \/ BlankLike(raw_df[i][c])

\* C4: when every row has a null or whitespace-only value in the critical id
\* columns that exist, the run ends with "Failed: Empty DataFrame or IDs" and has
\* generated no triple, written no artifact and not entered ingestion.
C4_AllIdsNullFailsEmpty ==
    (AllRowsLackIds /\ Ended) =>
        /\ pc = "done"
        /\ status = "Failed: Empty DataFrame or IDs"
        /\ df = <<>>
        /\ rules_visited = {} /\ n_triples = <<>>
        /\ nt_file = PyNone
        /\ ingest_calls = 0

\* C5: if the schema source cannot be read, create_cdm_column_map stops there with
\* a schema-load failure: it does not go on to the forward-fill and map-building
\* steps, and the failure that leaves it is the load failure.
C5_UnreadableSchemaStopsAtLoad ==
    ~cdm_file.readable =>
        /\ pc \notin {"cdm_ffill", "cdm_build", "cdm_returned"}
        /\ pc = "raised" => exc = "SchemaLoadError"

\* the translation table as the claim states it, with other for any other value
ClaimedTranslation(format, other) ==
    CASE format = "Integer" -> PyStr("INT")
      [] format = "String" -> PyStr("STRING")
      [] format = "String (predefined)" -> PyStr("STRING")
      [] format = "Date" -> PyStr("DATE")
      [] format = "Decimal" -> PyStr("FLOAT")
      [] format = "URL" -> PyStr("STRING")
      [] OTHER -> other

\* the row the loop has just passed contributed an entry
JustContributed == pc = "cdm_build" /\ cdm_i > 1 /\ flat_parts_of(cdm[cdm_i - 1]) # <<>>

\* the text of a row's Format cell: blank for an empty cell or a missing column
FormatText(row) ==
    IF cdm_raw.has_format /\ row["Format"].k = "str" THEN Strip(row["Format"].v) ELSE ""

StoredAs(other) ==
    /\ JustContributed =>
          flat_to_format_map[flat_col_name_of(cdm[cdm_i - 1])] =
              IF FormatText(cdm[cdm_i - 1]) = "" THEN other
              ELSE ClaimedTranslation(FormatText(cdm[cdm_i - 1]), other)
    /\ \A c \in DOMAIN flat_to_format_map :
          flat_to_format_map[c] \in
              {PyStr("STRING"), PyStr("INT"), PyStr("FLOAT"), PyStr("DATE"), other}

\* C6 as stated: the value stored for a contributing row is the translation of its
\* Format cell, UNKNOWN for any other value or an empty cell; every value of the map
\* is one of STRING, INT, FLOAT, DATE, UNKNOWN.
C6_StoredTranslationOrUnknown == StoredAs(PyStr("UNKNOWN"))

\* C6 amended: the value stored for a contributing row is the translation of its
\* Format cell (trimmed), None for any other value or an empty cell; every value of
\* the map is one of STRING, INT, FLOAT, DATE, None.
C6_StoredTranslationOrNone == StoredAs(PyNone)

C6_Witness ==
    /\ JustContributed
    /\ FormatText(cdm[cdm_i - 1]) = "Boolean"
    /\ \E c \in DOMAIN flat_to_format_map : flat_to_format_map[c] = PyStr("FLOAT")

\* the resolved subject of rule m for record i is empty or ends with one of the
\* fixed placeholder suffixes
ClaimSkipped(i, m) ==
    LET resolved == expand_prefixed(substitute_placeholders(mappings[m].s.v, df[i]), prefixes)
    IN \/ resolved = ""
       \/ EndsWith(resolved, "case_")
       \/ EndsWith(resolved, "victim_current_place_")
       \/ EndsWith(resolved, "departure_place_")
       \/ EndsWith(resolved, "destination_place_")

InSeq(x, seq) == \E k \in 1..Len(seq) : seq[k] = x

\* C7: a rule whose resolved subject is empty or ends with a placeholder suffix
\* contributes no triple for that record and none of its predicate/object rules
\* is evaluated; every other rule of the same record is still evaluated and emits
\* its triples.
C7_SkippedRuleOnly ==
    /\ \A r \in rules_visited :
          (Truthy(mappings[r[2]].s) /\ ClaimSkipped(r[1], r[2])) =>
              \A p \in 1..Len(mappings[r[2]].po) :
                  /\ ~InSeq(<<r[1], r[2], p>>, po_evaluated)
                  /\ ~InSeq(<<r[1], r[2], p>>, emitted_from)
    /\ GenReturned =>
          \A i \in 1..Len(df) : \A m \in 1..Len(mappings) :
              /\ <<i, m>> \in rules_visited
              /\ (Truthy(mappings[m].s) /\ ~ClaimSkipped(i, m)) =>
                    \A p \in 1..Len(mappings[m].po) :
                        Len(mappings[m].po[p]) >= 2 =>
                            /\ InSeq(<<i, m, p>>, po_evaluated)
                            /\ obj_template_sub_of(mappings[m].po[p], df[i]) # "" =>
                                  InSeq(<<i, m, p>>, emitted_from)

C7_Witness ==
    /\ GenReturned
    /\ \E i \in 1..Len(df) : \E m, n \in 1..Len(mappings) :
          /\ Truthy(mappings[m].s) /\ ClaimSkipped(i, m)
          /\ m < n
          /\ \E p \in 1..Len(mappings[n].po) : InSeq(<<i, n, p>>, emitted_from)

\* the triple of rule p of mapping m for record i survives
Survives(i, m, p) ==
    /\ Truthy(mappings[m].s)
    /\ ~ClaimSkipped(i, m)
    /\ Len(mappings[m].po[p]) >= 2
    /\ Strip(substitute_placeholders(mappings[m].po[p][2], df[i])) # ""

\* the surviving triples from <<i, m, p>> on, in record, mapping, then po order
RECURSIVE SurvivingFrom(_, _, _)
SurvivingFrom(i, m, p) ==
    IF i > Len(df) THEN <<>>
    ELSE IF m > Len(mappings) THEN SurvivingFrom(i + 1, 1, 1)
    ELSE IF p > Len(mappings[m].po) THEN SurvivingFrom(i, m + 1, 1)
    ELSE (IF Survives(i, m, p) THEN <<<<i, m, p>>>> ELSE <<>>) \o SurvivingFrom(i, m, p + 1)

\* C8: the output of generate_triples is exactly the surviving triples in record,
\* then mapping, then predicate/object order: an object that substitutes to the
\* empty string removes its own triple only, and the output is a function of the
\* dataset and the mapping configuration.
C8_OutputInNestedOrder ==
    GenReturned =>
        /\ emitted_from = SurvivingFrom(1, 1, 1)
        /\ Len(n_triples) = Len(emitted_from)
        /\ \A k \in 1..Len(n_triples) :
              LET i == emitted_from[k][1]
                  m == emitted_from[k][2]
                  p == emitted_from[k][3]
              IN n_triples[k] =
                   triple_of("<" \o subj_iri_of(mappings[m].s.v, df[i], prefixes) \o ">",
                             mappings[m].po[p], df[i], prefixes)
        /\ rdf_content = Join("\n", n_triples)

C8_Witness ==
    /\ GenReturned
    /\ \E e \in 1..Len(po_evaluated) : \E k \in 1..Len(emitted_from) :
          /\ ~InSeq(po_evaluated[e], emitted_from)
          /\ emitted_from[k][1] = po_evaluated[e][1]
          /\ emitted_from[k][2] = po_evaluated[e][2]
          /\ emitted_from[k][3] > po_evaluated[e][3]

\* the lines of a text: the pieces its newlines end
RECURSIVE LinesOf(_)
LinesOf(text) ==
    IF text = "" THEN <<>>
    ELSE LET nl == IndexOf(text, "\n")
         IN IF nl = 0 THEN <<text>>
            ELSE <<SubSeq(text, 1, nl - 1)>> \o LinesOf(SubSeq(text, nl + 1, Len(text)))

\* C9: every artifact save_triples_to_file writes ends with a newline and holds
\* exactly one line per generated triple, each line one complete
\* "<subject> <predicate> object ." statement.
C9_OneStatementPerLine ==
    nt_file # PyNone =>
        /\ EndsWith(nt_file.v, "\n")
        /\ Len(LinesOf(nt_file.v)) = Len(n_triples)
        /\ \A k \in 1..Len(LinesOf(nt_file.v)) :
              StartsWith(LinesOf(nt_file.v)[k], "<") /\ EndsWith(LinesOf(nt_file.v)[k], " .")

\* a blank, whitespace-only, "nan" (any case, any surrounding whitespace) or
\* missing input
BlankOrNan(x) == IsNa(x) \/ Lower(Strip(x.v)) \in {"", "nan"}

\* C10: normalize_name(normalize_name(s)) = normalize_name(s) for every input, and
\* every blank, whitespace-only, "nan" or missing input normalizes to None.
C10_NormalizeIdempotentAbsent ==
    /\ Len(fn_out) = 2 => fn_out[2] = fn_out[1]
    /\ (Len(fn_out) >= 1 /\ BlankOrNan(fn_in)) => fn_out[1] = PyNone

\* C11: the artifact and the raw-record file are moved, and "Success" is returned,
\* only in runs where ingestion reported success; whenever ingestion fails (file
\* missing, or connecting or uploading raising at any step) ingest_rdf_file returns
\* False rather than raising, and the run returns "Failed: Ingestion Error" with no
\* file moved.
C11_FailedIngestReturnsFalse ==
    /\ (status = "Success" \/ archived # {}) => ingest_success
    /\ exc # "UnboundLocalError: conn"
    /\ (ingest_calls = 1 /\ Ended /\ ~ingest_success) =>
          /\ pc = "done"
          /\ status = "Failed: Ingestion Error"
          /\ archived = {}

====
